---------------------------- MODULE Spec2Model ----------------------------
(***************************************************************************)
(* Model of the kimi-monitor quota monitor: the reset detector of          *)
(* StateManager (state_manager.py), the poll cycle check_and_notify        *)
(* (monitor.py), the scheduling loop run_monitor around it (monitor.py)    *)
(* and the state file it persists to.                                      *)
(*                                                                         *)
(* Units.  Percentages are whole percents.  Every snapshot source of the   *)
(* repository builds "hours until reset" as d*24 + h + m/60 from whole     *)
(* minutes, so hours are kept here in MINUTES: 1 h = 60, 0.5 h = 30,       *)
(* 160 h = 9600, 0.05 h = 3, 166 h = 9960, 168 h = 10080.  Wall-clock time  *)
(* is kept in SECONDS (the tick of run_monitor's wait loop) and is         *)
(* measured from the `now' that run_monitor read at the start of the loop  *)
(* iteration in progress, so that `now' itself is 0.                       *)
(***************************************************************************)
EXTENDS Integers, Sequences, FiniteSets

VARIABLES
    state,        \* StateManager.state : the in-memory MonitorState
    file,         \* content of the state file: NoFile, Torn or a MonitorState
    pc,           \* position of the monitor inside / between poll cycles
    usage,        \* the UsageInfo obtained by the poll in progress (or NoUsage)
    pre,          \* observer: `state' as it was when the current cycle/call began
    is_reset,     \* observer: the local is_reset of the two detector calls
    weekly_reset, \* check_and_notify's local: result of update_and_check_weekly
    rate_reset,   \* check_and_notify's local: result of update_and_check_rate
    requests,     \* observer: notifications requested from the notifier this cycle
    delivery,     \* observer: what the notifier answered this cycle
    save_result,  \* observer: outcome of the last save_state call of this cycle
    last_poll,    \* observer: how the last check_and_notify ended
    episode,      \* observer: per kind, reset detected / delivered since
    scenario,     \* observer: how far the polls so far follow ScenarioSnapshots
    scenario_log, \* observer: what each scenario poll requested, poll by poll
    next_check,   \* what check_and_notify returned as next check time (or None)
    running,      \* monitor.py's global flag, cleared by signal_handler
    loop,         \* position of run_monitor ("off": run_monitor is not modelled)
    clock,        \* datetime.now(), in seconds since run_monitor's `now'
    next_check_time,     \* run_monitor's local, same time frame (or None)
    signal_at,           \* observer: where run_monitor was when the signal came
    sleeps_after_signal, \* observer: time.sleep calls returned since the signal
    crash,        \* observer: what the process held in memory when it was killed
    tool          \* a run of update_usage.py: its position, locals and result

vars == << state, file, pc, usage, pre, is_reset, weekly_reset, rate_reset,
           requests, delivery, save_result, last_poll, episode, scenario,
           scenario_log, next_check, running, loop, clock, next_check_time,
           signal_at, sleeps_after_signal, crash, tool >>

\* The variables of run_monitor and of the crash observer.
loopvars == << running, loop, clock, next_check_time, signal_at,
               sleeps_after_signal, crash, tool >>

-----------------------------------------------------------------------------
(* Thresholds of the two detectors, as written in state_manager.py.        *)

WeeklyLowPercent == 20
WeeklyImminentMinutes == 60
WeeklyPostResetMinutes == 9600
WeeklyDropFloor == 90
WeeklyDropMagnitude == 50
WeeklyFullThreshold == 80

RateLowPercent == 20
RateImminentMinutes == 30
RatePostResetMinutes == 120
RateDropFloor == 80
RateDropMagnitude == 40
RateFullThreshold == 70

-----------------------------------------------------------------------------
(* MonitorState and its default (dataclass defaults).                      *)

\* What is not a MonitorState or a UsageInfo is a record of another shape.
NoFile == [content |-> "NoFile"]
Torn == [content |-> "Torn"]
NoUsage == [usage |-> "None"]

\* Python's None for an Optional[datetime]; a datetime t is << t >>.
None == << >>

MonitorState ==
    [ weekly_was_full |-> FALSE,
      weekly_last_percent |-> 0,
      weekly_last_reset_hours |-> 0,
      rate_was_full |-> FALSE,
      rate_last_percent |-> 0,
      rate_last_last_reset_hours |-> 0,
      weekly_reset_notified |-> FALSE,
      rate_reset_notified |-> FALSE ]

UsageInfo(wp, wh, rp, rh) ==
    [ weekly_usage_percent |-> wp,
      weekly_reset_hours |-> wh,
      rate_limit_percent |-> rp,
      rate_limit_reset_hours |-> rh ]

-----------------------------------------------------------------------------
(* The reset detector.                                                     *)

\* Faulty variant: the countdown-wrap rule is guarded by "a countdown was observed".
WeeklyIsReset_guarded(st, current_percent, reset_hours) ==
    IF st.weekly_was_full /\ current_percent < WeeklyLowPercent THEN TRUE
    ELSE IF st.weekly_last_reset_hours > 0
             /\ st.weekly_last_reset_hours < WeeklyImminentMinutes
             /\ reset_hours > WeeklyPostResetMinutes THEN TRUE
    ELSE IF st.weekly_last_percent > WeeklyDropFloor
             /\ current_percent < st.weekly_last_percent - WeeklyDropMagnitude THEN TRUE
    ELSE FALSE

\* Faulty variant: the magnitude-drop rule compares with >= instead of >.
WeeklyIsReset_dropfloor(st, current_percent, reset_hours) ==
    IF st.weekly_was_full /\ current_percent < WeeklyLowPercent THEN TRUE
    ELSE IF st.weekly_last_reset_hours < WeeklyImminentMinutes
             /\ reset_hours > WeeklyPostResetMinutes THEN TRUE
    ELSE IF st.weekly_last_percent >= WeeklyDropFloor
             /\ current_percent < st.weekly_last_percent - WeeklyDropMagnitude THEN TRUE
    ELSE FALSE

\* The if / elif / elif chain of update_and_check_weekly: its local is_reset.
WeeklyIsReset(st, current_percent, reset_hours) ==
    IF st.weekly_was_full /\ current_percent < WeeklyLowPercent THEN TRUE
    ELSE IF st.weekly_last_reset_hours < WeeklyImminentMinutes
             /\ reset_hours > WeeklyPostResetMinutes THEN TRUE
    ELSE IF st.weekly_last_percent > WeeklyDropFloor
             /\ current_percent < st.weekly_last_percent - WeeklyDropMagnitude THEN TRUE
    ELSE FALSE

\* Faulty variant: the level rule fires on a low percent alone, without was_full.
RateIsReset_no_hysteresis(st, current_percent, reset_hours) ==
    IF current_percent < RateLowPercent THEN TRUE
    ELSE IF st.rate_last_last_reset_hours < RateImminentMinutes
             /\ reset_hours > RatePostResetMinutes THEN TRUE
    ELSE IF st.rate_last_percent > RateDropFloor
             /\ current_percent < st.rate_last_percent - RateDropMagnitude THEN TRUE
    ELSE FALSE

\* The if / elif / elif chain of update_and_check_rate: its local is_reset.
RateIsReset(st, current_percent, reset_hours) ==
    IF st.rate_was_full /\ current_percent < RateLowPercent THEN TRUE
    ELSE IF st.rate_last_last_reset_hours < RateImminentMinutes
             /\ reset_hours > RatePostResetMinutes THEN TRUE
    ELSE IF st.rate_last_percent > RateDropFloor
             /\ current_percent < st.rate_last_percent - RateDropMagnitude THEN TRUE
    ELSE FALSE

\* Faulty variant: the notify decision is taken before reset_notified is cleared.
update_and_check_weekly_check_then_clear(st, current_percent, reset_hours) ==
    LET reset == WeeklyIsReset(st, current_percent, reset_hours)
        s1 == [st EXCEPT !.weekly_last_percent = current_percent,
                         !.weekly_last_reset_hours = reset_hours,
                         !.weekly_was_full = current_percent > WeeklyFullThreshold]
        s2 == IF reset THEN [s1 EXCEPT !.weekly_reset_notified = FALSE] ELSE s1
    IN  [ state |-> s2, is_reset |-> reset,
          ret |-> reset /\ ~st.weekly_reset_notified ]

\* Faulty variant: was_full is sticky (kept once set) instead of single-step.
update_and_check_weekly_sticky(st, current_percent, reset_hours) ==
    LET reset == WeeklyIsReset(st, current_percent, reset_hours)
        s1 == [st EXCEPT !.weekly_last_percent = current_percent,
                         !.weekly_last_reset_hours = reset_hours,
                         !.weekly_was_full = st.weekly_was_full
                                             \/ current_percent > WeeklyFullThreshold]
        s2 == IF reset THEN [s1 EXCEPT !.weekly_reset_notified = FALSE] ELSE s1
    IN  [ state |-> s2, is_reset |-> reset,
          ret |-> reset /\ ~s2.weekly_reset_notified ]

\* Faulty variant: the returned value forgets "is_reset and".
update_and_check_weekly_pending(st, current_percent, reset_hours) ==
    LET reset == WeeklyIsReset(st, current_percent, reset_hours)
        s1 == [st EXCEPT !.weekly_last_percent = current_percent,
                         !.weekly_last_reset_hours = reset_hours,
                         !.weekly_was_full = current_percent > WeeklyFullThreshold]
        s2 == IF reset THEN [s1 EXCEPT !.weekly_reset_notified = FALSE] ELSE s1
    IN  [ state |-> s2, is_reset |-> reset,
          ret |-> ~s2.weekly_reset_notified ]

\* Faulty variant: the hysteresis fields are only advanced when a reset is seen.
update_and_check_weekly_update_on_reset(st, current_percent, reset_hours) ==
    LET reset == WeeklyIsReset(st, current_percent, reset_hours)
        s1 == [st EXCEPT !.weekly_last_percent = current_percent,
                         !.weekly_last_reset_hours = reset_hours,
                         !.weekly_was_full = current_percent > WeeklyFullThreshold]
        s2 == IF reset THEN [s1 EXCEPT !.weekly_reset_notified = FALSE] ELSE st
    IN  [ state |-> s2, is_reset |-> reset,
          ret |-> reset /\ ~s2.weekly_reset_notified ]

\* Faulty variant: a weekly reset clears the notified flag of both kinds.
update_and_check_weekly_clears_both(st, current_percent, reset_hours) ==
    LET reset == WeeklyIsReset(st, current_percent, reset_hours)
        s1 == [st EXCEPT !.weekly_last_percent = current_percent,
                         !.weekly_last_reset_hours = reset_hours,
                         !.weekly_was_full = current_percent > WeeklyFullThreshold]
        s2 == IF reset THEN [s1 EXCEPT !.weekly_reset_notified = FALSE,
                                       !.rate_reset_notified = FALSE]
              ELSE s1
    IN  [ state |-> s2, is_reset |-> reset,
          ret |-> reset /\ ~s2.weekly_reset_notified ]

\* StateManager.update_and_check_weekly: the state after the call, the local
\* is_reset, and the returned value.
update_and_check_weekly(st, current_percent, reset_hours) ==
    LET reset == WeeklyIsReset(st, current_percent, reset_hours)
        s1 == [st EXCEPT !.weekly_last_percent = current_percent,
                         !.weekly_last_reset_hours = reset_hours,
                         !.weekly_was_full = current_percent > WeeklyFullThreshold]
        s2 == IF reset THEN [s1 EXCEPT !.weekly_reset_notified = FALSE] ELSE s1
    IN  [ state |-> s2, is_reset |-> reset,
          ret |-> reset /\ ~s2.weekly_reset_notified ]

\* Faulty variant: a detected reset does not clear rate_reset_notified.
update_and_check_rate_no_clear(st, current_percent, reset_hours) ==
    LET reset == RateIsReset(st, current_percent, reset_hours)
        s1 == [st EXCEPT !.rate_last_percent = current_percent,
                         !.rate_last_last_reset_hours = reset_hours,
                         !.rate_was_full = current_percent > RateFullThreshold]
    IN  [ state |-> s1, is_reset |-> reset, ret |-> reset ]

\* Faulty variant: the burst was_full uses the weekly "full" threshold.
update_and_check_rate_weekly_threshold(st, current_percent, reset_hours) ==
    LET reset == RateIsReset(st, current_percent, reset_hours)
        s1 == [st EXCEPT !.rate_last_percent = current_percent,
                         !.rate_last_last_reset_hours = reset_hours,
                         !.rate_was_full = current_percent > WeeklyFullThreshold]
        s2 == IF reset THEN [s1 EXCEPT !.rate_reset_notified = FALSE] ELSE s1
    IN  [ state |-> s2, is_reset |-> reset,
          ret |-> reset /\ ~s2.rate_reset_notified ]

\* StateManager.update_and_check_rate.
update_and_check_rate(st, current_percent, reset_hours) ==
    LET reset == RateIsReset(st, current_percent, reset_hours)
        s1 == [st EXCEPT !.rate_last_percent = current_percent,
                         !.rate_last_last_reset_hours = reset_hours,
                         !.rate_was_full = current_percent > RateFullThreshold]
        s2 == IF reset THEN [s1 EXCEPT !.rate_reset_notified = FALSE] ELSE s1
    IN  [ state |-> s2, is_reset |-> reset,
          ret |-> reset /\ ~s2.rate_reset_notified ]

\* Faulty variant: mark_notified sets both flags whatever its arguments.
mark_notified_all(st, weekly, rate) ==
    [st EXCEPT !.weekly_reset_notified = TRUE, !.rate_reset_notified = TRUE]

\* StateManager.mark_notified, the in-memory part (its save_state call is
\* part of the Notify actions below).
mark_notified(st, weekly, rate) ==
    [st EXCEPT !.weekly_reset_notified = IF weekly THEN TRUE ELSE @,
               !.rate_reset_notified = IF rate THEN TRUE ELSE @]

\* StateManager.save_state: the file after one call.  The write either
\* completes ("ok"), fails before the file is opened ("unwritten": the
\* exception is logged and the file is as before), or fails after
\* open(..., 'w') truncated the file ("torn").
SaveOutcomes == {"ok", "unwritten", "torn"}

save_state(st, f, outcome) ==
    CASE outcome = "ok" -> st
      [] outcome = "unwritten" -> f
      [] outcome = "torn" -> Torn


-----------------------------------------------------------------------------
(* Snapshots the snapshot source may return in the poll-cycle model.  A   *)
(* snapshot pairs one weekly sample with one burst ("rate") sample, each  *)
(* <<percent used, minutes until reset>>.                                 *)

WeeklySampleList ==
    << <<84, 9960>>, <<5, 3>>, <<100, 10080>>, <<95, 30>>, <<30, 9000>> >>
RateSampleList == << <<66, 180>>, <<5, 3>>, <<100, 300>>, <<75, 20>> >>

\* How many of the weekly samples the snapshot source draws from.
NumWeeklySamples == 4

WeeklySamples ==
    { WeeklySampleList[i] :
      i \in { j \in 1 .. Len(WeeklySampleList) : j <= NumWeeklySamples } }
RateSamples == { RateSampleList[i] : i \in 1 .. Len(RateSampleList) }

Snapshots ==
    { UsageInfo(w[1], w[2], r[1], r[2]) : w \in WeeklySamples, r \in RateSamples }

\* The four snapshots of the end-to-end scenario (84%,166h,66%,3h),
\* (84%,166h,66%,3h), (5%,0.05h,5%,0.05h), (100%,168h,100%,5h).
ScenarioSnapshots ==
    << UsageInfo(84, 9960, 66, 180), UsageInfo(84, 9960, 66, 180),
       UsageInfo(5, 3, 5, 3), UsageInfo(100, 10080, 100, 300) >>

\* Observer value: the polls so far do not follow the scenario.
Off == Len(ScenarioSnapshots) + 1

\* Observer: position in the scenario after one more poll returning u.
ScenarioAfter(k, u) ==
    IF k < Len(ScenarioSnapshots) /\ u = ScenarioSnapshots[k + 1]
    THEN k + 1 ELSE Off

\* Observer: a kind's episode after a detector call / after a delivery.
EpisodeAfterDetect(e, reset) == IF reset THEN "pending" ELSE e
EpisodeAfterDelivery(e, covered) == IF covered THEN "delivered" ELSE e

-----------------------------------------------------------------------------
(* Time constants of monitor.py and config.py, in seconds.                *)

SecondsPerMinute == 60
\* "timedelta(minutes=5)": the margin added to the expected reset time.
ResetMarginMinutes == 5
\* Config.CHECK_INTERVAL_MINUTES, at its default.
CHECK_INTERVAL_MINUTES == 10
\* run_monitor's "check_interval = 1": the tick of its wait loop.
check_interval == 1

\* run_monitor's "max_wait = config.CHECK_INTERVAL_MINUTES * 60".
max_wait == CHECK_INTERVAL_MINUTES * SecondsPerMinute

\* timedelta(hours=h) for an "hours" value kept in minutes, in seconds.
timedelta_hours(h) == h * SecondsPerMinute

\* Faulty variant: the check is placed at the reset time, without the margin.
calculate_next_check_time_no_margin(now, u) ==
    LET weekly_reset_time == now + timedelta_hours(u.weekly_reset_hours)
        rate_reset_time == now + timedelta_hours(u.rate_limit_reset_hours)
    IN  IF weekly_reset_time < rate_reset_time THEN weekly_reset_time
        ELSE rate_reset_time

\* calculate_next_check_time(usage), called when datetime.now() is `now'.
calculate_next_check_time(now, u) ==
    LET weekly_reset_time == now + timedelta_hours(u.weekly_reset_hours)
        rate_reset_time == now + timedelta_hours(u.rate_limit_reset_hours)
        weekly_check == weekly_reset_time + ResetMarginMinutes * SecondsPerMinute
        rate_check == rate_reset_time + ResetMarginMinutes * SecondsPerMinute
    IN  IF weekly_check < rate_check THEN weekly_check ELSE rate_check

\* update_usage.py has not been run.
ToolOff ==
    [ pc |-> "off", runs |-> 0, wrote_since_start |-> FALSE, unread |-> FALSE,
      lost |-> FALSE ]

\* run_monitor is not running: the poll cycle or the detector on its own.
LoopOff ==
    /\ running = TRUE
    /\ loop = "off"
    /\ clock = 0
    /\ next_check_time = None
    /\ signal_at = "none"
    /\ sleeps_after_signal = 0
    /\ crash = None
    /\ tool = ToolOff

-----------------------------------------------------------------------------
(* The poll cycle: check_and_notify, one action per step of its body.     *)

TypeOK ==
    /\ pc \in {"idle", "detect", "notify", "save", "unit", "unit_weekly", "unit_rate",
              "crashed"}
    /\ last_poll \in {"none", "running", "ok", "failed", "raised", "restarted"}
    /\ delivery \in {"none", "ok", "failed"}
    /\ save_result \in SaveOutcomes \cup {"none"}
    /\ weekly_reset \in BOOLEAN /\ rate_reset \in BOOLEAN
    /\ scenario \in 0 .. Off

\* StateManager.__init__ with no state file: _load_state returns MonitorState().
Init ==
    /\ state = MonitorState
    /\ file = NoFile
    /\ pc = "idle"
    /\ usage = NoUsage
    /\ pre = MonitorState
    /\ is_reset = [weekly |-> FALSE, rate |-> FALSE]
    /\ weekly_reset = FALSE
    /\ rate_reset = FALSE
    /\ requests = << >>
    /\ delivery = "none"
    /\ save_result = "none"
    /\ last_poll = "none"
    /\ episode = [weekly |-> "none", rate |-> "none"]
    /\ scenario = 0
    /\ scenario_log = << >>
    /\ next_check = None
    /\ LoopOff

\* client.get_usage() returns a snapshot.
GetUsage(u) ==
    /\ pc = "idle"
    /\ usage' = u
    /\ pc' = "detect"
    /\ pre' = state
    /\ is_reset' = [weekly |-> FALSE, rate |-> FALSE]
    /\ weekly_reset' = FALSE
    /\ rate_reset' = FALSE
    /\ requests' = << >>
    /\ delivery' = "none"
    /\ save_result' = "none"
    /\ last_poll' = "running"
    /\ scenario' = ScenarioAfter(scenario, u)
    /\ scenario_log' = IF scenario' = Off THEN << >> ELSE scenario_log
    /\ next_check' = None
    /\ UNCHANGED << state, file, episode >>

\* Faulty variant: a poll without a snapshot forgets the notified flags.
GetUsageFails_forgets ==
    /\ pc = "idle"
    /\ usage' = NoUsage
    /\ pc' = "idle"
    /\ pre' = state
    /\ is_reset' = [weekly |-> FALSE, rate |-> FALSE]
    /\ weekly_reset' = FALSE
    /\ rate_reset' = FALSE
    /\ requests' = << >>
    /\ delivery' = "none"
    /\ save_result' = "none"
    /\ last_poll' = "failed"
    /\ scenario' = Off
    /\ scenario_log' = << >>
    /\ next_check' = None
    /\ state' = [state EXCEPT !.weekly_reset_notified = FALSE,
                              !.rate_reset_notified = FALSE]
    /\ UNCHANGED << file, episode >>

\* client.get_usage() returns None: "if not usage: return False, None".
GetUsageFails ==
    /\ pc = "idle"
    /\ usage' = NoUsage
    /\ pc' = "idle"
    /\ pre' = state
    /\ is_reset' = [weekly |-> FALSE, rate |-> FALSE]
    /\ weekly_reset' = FALSE
    /\ rate_reset' = FALSE
    /\ requests' = << >>
    /\ delivery' = "none"
    /\ save_result' = "none"
    /\ last_poll' = "failed"
    /\ scenario' = Off
    /\ scenario_log' = << >>
    /\ next_check' = None
    /\ UNCHANGED << state, file, episode >>

\* The two detector calls: state.update_and_check_weekly, then
\* state.update_and_check_rate on the state the first call left.
Detect ==
    /\ pc = "detect"
    /\ LET w == update_and_check_weekly(state, usage.weekly_usage_percent,
                                        usage.weekly_reset_hours)
           r == update_and_check_rate(w.state, usage.rate_limit_percent,
                                      usage.rate_limit_reset_hours)
       IN  /\ state' = r.state
           /\ weekly_reset' = w.ret
           /\ rate_reset' = r.ret
           /\ is_reset' = [weekly |-> w.is_reset, rate |-> r.is_reset]
           /\ episode' = [weekly |-> EpisodeAfterDetect(episode.weekly, w.is_reset),
                          rate |-> EpisodeAfterDetect(episode.rate, r.is_reset)]
    /\ pc' = "notify"
    /\ UNCHANGED << file, usage, pre, requests, delivery, save_result, last_poll,
                    scenario, scenario_log, next_check >>

\* Faulty variant: two single-kind notifications instead of the combined one.
NotifyBoth_two_singles(ok, outcome) ==
    /\ pc = "notify"
    /\ weekly_reset /\ rate_reset
    /\ requests' = requests \o << "weekly", "rate" >>
    /\ delivery' = IF ok THEN "ok" ELSE "failed"
    /\ IF ok
       THEN /\ state' = mark_notified(state, TRUE, TRUE)
            /\ file' = save_state(state', file, outcome)
            /\ save_result' = outcome
            /\ episode' = [weekly |-> "delivered", rate |-> "delivered"]
            /\ UNCHANGED << scenario, scenario_log >>
       ELSE /\ scenario' = Off
            /\ scenario_log' = << >>
            /\ UNCHANGED << state, file, save_result, episode >>
    /\ pc' = "save"
    /\ UNCHANGED << usage, pre, is_reset, weekly_reset, rate_reset, last_poll,
                    next_check >>

\* Faulty variant: the flags are set whatever the notifier answered.
NotifyBoth_ignores_failure(ok, outcome) ==
    /\ pc = "notify"
    /\ weekly_reset /\ rate_reset
    /\ requests' = Append(requests, "both")
    /\ delivery' = IF ok THEN "ok" ELSE "failed"
    /\ state' = mark_notified(state, TRUE, TRUE)
    /\ file' = save_state(state', file, outcome)
    /\ save_result' = outcome
    /\ episode' = IF ok THEN [weekly |-> "delivered", rate |-> "delivered"] ELSE episode
    /\ scenario' = IF ok THEN scenario ELSE Off
    /\ scenario_log' = IF ok THEN scenario_log ELSE << >>
    /\ pc' = "save"
    /\ UNCHANGED << usage, pre, is_reset, weekly_reset, rate_reset, last_poll,
                    next_check >>

\* "if weekly_reset and rate_reset": send_both_reset_notification, and on
\* success mark_notified(weekly=True, rate=True), which saves.
NotifyBoth(ok, outcome) ==
    /\ pc = "notify"
    /\ weekly_reset /\ rate_reset
    /\ requests' = Append(requests, "both")
    /\ delivery' = IF ok THEN "ok" ELSE "failed"
    /\ IF ok
       THEN /\ state' = mark_notified(state, TRUE, TRUE)
            /\ file' = save_state(state', file, outcome)
            /\ save_result' = outcome
            /\ episode' = [weekly |-> "delivered", rate |-> "delivered"]
            /\ UNCHANGED << scenario, scenario_log >>
       ELSE /\ scenario' = Off
            /\ scenario_log' = << >>
            /\ UNCHANGED << state, file, save_result, episode >>
    /\ pc' = "save"
    /\ UNCHANGED << usage, pre, is_reset, weekly_reset, rate_reset, last_poll,
                    next_check >>

\* else-branch, "if weekly_reset": send_quota_reset_notification("Weekly
\* limit"), and on success mark_notified(weekly=True).
NotifyWeekly(ok, outcome) ==
    /\ pc = "notify"
    /\ ~(weekly_reset /\ rate_reset)
    /\ weekly_reset
    /\ requests' = Append(requests, "weekly")
    /\ delivery' = IF ok THEN "ok" ELSE "failed"
    /\ IF ok
       THEN /\ state' = mark_notified(state, TRUE, FALSE)
            /\ file' = save_state(state', file, outcome)
            /\ save_result' = outcome
            /\ episode' = [episode EXCEPT !.weekly = "delivered"]
            /\ UNCHANGED << scenario, scenario_log >>
       ELSE /\ scenario' = Off
            /\ scenario_log' = << >>
            /\ UNCHANGED << state, file, save_result, episode >>
    /\ pc' = "save"
    /\ UNCHANGED << usage, pre, is_reset, weekly_reset, rate_reset, last_poll,
                    next_check >>

\* else-branch, "if rate_reset": send_quota_reset_notification("5h limit"),
\* and on success mark_notified(rate=True).
NotifyRate(ok, outcome) ==
    /\ pc = "notify"
    /\ ~(weekly_reset /\ rate_reset)
    /\ rate_reset
    /\ requests' = Append(requests, "rate")
    /\ delivery' = IF ok THEN "ok" ELSE "failed"
    /\ IF ok
       THEN /\ state' = mark_notified(state, FALSE, TRUE)
            /\ file' = save_state(state', file, outcome)
            /\ save_result' = outcome
            /\ episode' = [episode EXCEPT !.rate = "delivered"]
            /\ UNCHANGED << scenario, scenario_log >>
       ELSE /\ scenario' = Off
            /\ scenario_log' = << >>
            /\ UNCHANGED << state, file, save_result, episode >>
    /\ pc' = "save"
    /\ UNCHANGED << usage, pre, is_reset, weekly_reset, rate_reset, last_poll,
                    next_check >>

\* Neither detector asked for a notification: no notifier call.
NotifyNone ==
    /\ pc = "notify"
    /\ ~weekly_reset /\ ~rate_reset
    /\ pc' = "save"
    /\ UNCHANGED << state, file, usage, pre, is_reset, weekly_reset, rate_reset,
                    requests, delivery, save_result, last_poll, episode, scenario,
                    scenario_log, next_check >>

\* Faulty variant: the save at the end of the cycle is left out.
FinalSave_skipped(outcome) ==
    /\ pc = "save"
    /\ file' = file
    /\ save_result' = outcome
    /\ next_check' = << calculate_next_check_time(clock, usage) >>
    /\ pc' = "idle"
    /\ last_poll' = "ok"
    /\ scenario_log' = IF scenario \in 1 .. Len(ScenarioSnapshots)
                       THEN Append(scenario_log, requests) ELSE scenario_log
    /\ UNCHANGED << state, usage, pre, is_reset, weekly_reset, rate_reset,
                    requests, delivery, episode, scenario >>

\* "state.save_state()" at the end of the cycle, then
\* "next_check = calculate_next_check_time(usage)" and "return True, next_check".
FinalSave(outcome) ==
    /\ pc = "save"
    /\ file' = save_state(state, file, outcome)
    /\ save_result' = outcome
    /\ next_check' = << calculate_next_check_time(clock, usage) >>
    /\ pc' = "idle"
    /\ last_poll' = "ok"
    /\ scenario_log' = IF scenario \in 1 .. Len(ScenarioSnapshots)
                       THEN Append(scenario_log, requests) ELSE scenario_log
    /\ UNCHANGED << state, usage, pre, is_reset, weekly_reset, rate_reset,
                    requests, delivery, episode, scenario >>

Next ==
    \/ (\E u \in Snapshots : GetUsage(u)) /\ UNCHANGED loopvars
    \/ GetUsageFails /\ UNCHANGED loopvars
    \/ Detect /\ UNCHANGED loopvars
    \/ (\E ok \in BOOLEAN, outcome \in SaveOutcomes : NotifyBoth(ok, outcome))
          /\ UNCHANGED loopvars
    \/ (\E ok \in BOOLEAN, outcome \in SaveOutcomes : NotifyWeekly(ok, outcome))
          /\ UNCHANGED loopvars
    \/ (\E ok \in BOOLEAN, outcome \in SaveOutcomes : NotifyRate(ok, outcome))
          /\ UNCHANGED loopvars
    \/ NotifyNone /\ UNCHANGED loopvars
    \/ (\E outcome \in SaveOutcomes : FinalSave(outcome)) /\ UNCHANGED loopvars

Spec == Init /\ [][Next]_vars

\* A completed poll cycle: check_and_notify has returned (True, next_check).
CycleDone == pc = "idle" /\ last_poll = "ok"


-----------------------------------------------------------------------------
(* The detector on its own: one call of update_and_check_weekly or        *)
(* update_and_check_rate on a StateManager whose state was loaded from a  *)
(* state file (the file's JSON decides every field), with any sample.     *)

PercentGrid == << 0, 10, 19, 20, 30, 40, 41, 50, 70, 71, 80, 81, 90, 91, 95, 100, 49 >>

\* How many of the grid's percent values the detector is called with.
NumPercents == 16

Percents == { PercentGrid[i] : i \in { j \in 1 .. Len(PercentGrid) : j <= NumPercents } }
Minutes == {0, 12, 29, 30, 59, 60, 120, 121, 9600, 9601}

WeeklyPriorStates ==
    { [MonitorState EXCEPT !.weekly_was_full = f, !.weekly_last_percent = p,
                           !.weekly_last_reset_hours = h, !.weekly_reset_notified = n] :
      f \in BOOLEAN, p \in Percents, h \in Minutes, n \in BOOLEAN }

RatePriorStates ==
    { [MonitorState EXCEPT !.rate_was_full = f, !.rate_last_percent = p,
                           !.rate_last_last_reset_hours = h, !.rate_reset_notified = n] :
      f \in BOOLEAN, p \in Percents, h \in Minutes, n \in BOOLEAN }

\* StateManager.__init__ with a state file present.
InitDetect ==
    /\ state \in WeeklyPriorStates \cup RatePriorStates
    /\ file = state
    /\ pc = "unit"
    /\ usage = NoUsage
    /\ pre = state
    /\ is_reset = [weekly |-> FALSE, rate |-> FALSE]
    /\ weekly_reset = FALSE
    /\ rate_reset = FALSE
    /\ requests = << >>
    /\ delivery = "none"
    /\ save_result = "none"
    /\ last_poll = "none"
    /\ episode = [weekly |-> "none", rate |-> "none"]
    /\ scenario = Off
    /\ scenario_log = << >>
    /\ next_check = None
    /\ LoopOff

\* One call state.update_and_check_weekly(percent, hours).
CallWeekly(percent, hours) ==
    /\ pc = "unit"
    /\ LET w == update_and_check_weekly(state, percent, hours)
       IN  /\ state' = w.state
           /\ weekly_reset' = w.ret
           /\ is_reset' = [is_reset EXCEPT !.weekly = w.is_reset]
    /\ usage' = UsageInfo(percent, hours, 0, 0)
    /\ pc' = "unit_weekly"
    /\ UNCHANGED << file, pre, rate_reset, requests, delivery, save_result,
                    last_poll, episode, scenario, scenario_log, next_check >>

\* One call state.update_and_check_rate(percent, hours).
CallRate(percent, hours) ==
    /\ pc = "unit"
    /\ LET r == update_and_check_rate(state, percent, hours)
       IN  /\ state' = r.state
           /\ rate_reset' = r.ret
           /\ is_reset' = [is_reset EXCEPT !.rate = r.is_reset]
    /\ usage' = UsageInfo(0, 0, percent, hours)
    /\ pc' = "unit_rate"
    /\ UNCHANGED << file, pre, weekly_reset, requests, delivery, save_result,
                    last_poll, episode, scenario, scenario_log, next_check >>

NextDetect ==
    \/ (\E percent \in Percents, hours \in Minutes : CallWeekly(percent, hours))
          /\ UNCHANGED loopvars
    \/ (\E percent \in Percents, hours \in Minutes : CallRate(percent, hours))
          /\ UNCHANGED loopvars

SpecDetect == InitDetect /\ [][NextDetect]_vars


-----------------------------------------------------------------------------
(* The scheduling loop: run_monitor, one action per step of its body, with *)
(* check_and_notify's steps in between and the signal handler able to run  *)
(* between any two steps.                                                  *)

\* Snapshots the source returns in the run-loop model: both resets 0.05 h
\* away (next check inside the base interval), a fresh week and burst window
\* (far beyond it), a fresh week with the burst reset 0.05 h away, and a
\* weekly reset 2 minutes away with the burst reset 3 h away.
LoopSnapshotList ==
    << UsageInfo(5, 3, 5, 3), UsageInfo(100, 10080, 100, 300),
       UsageInfo(100, 10080, 5, 3), UsageInfo(95, 2, 66, 180) >>

\* How many of them the snapshot source draws from.
NumLoopSnapshots == 3

LoopSnapshots ==
    { LoopSnapshotList[i] :
      i \in { j \in 1 .. Len(LoopSnapshotList) : j <= NumLoopSnapshots } }

\* Outcomes of save_state in the run-loop model: the write completes or
\* fails (what a failed write leaves in the file plays no part in the loop).
LoopSaveOutcomes == {"ok", "torn"}

\* Longest time, in seconds, one check_and_notify call takes.
MaxPollSeconds == 2

\* main(): StateManager built with no state file, handlers installed,
\* run_monitor entered with "next_check_time = None".
InitLoop ==
    /\ state = MonitorState
    /\ file = NoFile
    /\ pc = "idle"
    /\ usage = NoUsage
    /\ pre = MonitorState
    /\ is_reset = [weekly |-> FALSE, rate |-> FALSE]
    /\ weekly_reset = FALSE
    /\ rate_reset = FALSE
    /\ requests = << >>
    /\ delivery = "none"
    /\ save_result = "none"
    /\ last_poll = "none"
    /\ episode = [weekly |-> "none", rate |-> "none"]
    /\ scenario = Off
    /\ scenario_log = << >>
    /\ next_check = None
    /\ running = TRUE
    /\ loop = "outer"
    /\ clock = 0
    /\ next_check_time = None
    /\ signal_at = "none"
    /\ sleeps_after_signal = 0
    /\ crash = None
    /\ tool = ToolOff

\* Observer: the scheduler state run_monitor is in at a loop position.
SchedulerState(l) ==
    CASE l \in {"wait", "sleep"} -> "Idle"
      [] l \in {"call", "poll"} -> "Polling"
      [] OTHER -> l

\* signal_handler: SIGINT or SIGTERM delivered between two steps.
signal_handler ==
    /\ loop \notin {"off", "stopped"}
    /\ running
    /\ running' = FALSE
    /\ signal_at' = SchedulerState(loop)
    /\ sleeps_after_signal' = 0
    /\ UNCHANGED << state, file, pc, usage, pre, is_reset, weekly_reset,
                    rate_reset, requests, delivery, save_result, last_poll,
                    episode, scenario, scenario_log, next_check, loop, clock,
                    next_check_time, crash, tool >>

\* The variables of check_and_notify; run_monitor's own steps leave them.
pollvars == << state, file, pc, usage, pre, is_reset, weekly_reset, rate_reset,
              requests, delivery, save_result, last_poll, episode, scenario,
              scenario_log, next_check >>

\* Faulty variant: the loop also gives up after a poll that did not succeed.
OuterTest_gives_up ==
    /\ loop = "outer"
    /\ loop' = IF running /\ last_poll \in {"none", "ok"} THEN "decide" ELSE "stopped"
    /\ UNCHANGED << running, clock, next_check_time, signal_at,
                    sleeps_after_signal, crash, tool >>
    /\ UNCHANGED pollvars

\* "while running:" of the outer loop, and "logger.info(stopped)" after it.
OuterTest ==
    /\ loop = "outer"
    /\ loop' = IF running THEN "decide" ELSE "stopped"
    /\ UNCHANGED << running, clock, next_check_time, signal_at,
                    sleeps_after_signal, crash, tool >>
    /\ UNCHANGED pollvars

\* "now = datetime.now()" and "if next_check_time is None or now >=
\* next_check_time": time is measured from this `now' from here on.
Decide ==
    /\ loop = "decide"
    /\ clock' = 0
    /\ next_check_time' = IF next_check_time = None THEN None
                          ELSE << next_check_time[1] - clock >>
    /\ loop' = IF next_check_time = None \/ clock >= next_check_time[1]
               THEN "call" ELSE "wait"
    /\ UNCHANGED << running, signal_at, sleeps_after_signal, crash, tool >>
    /\ UNCHANGED pollvars

\* check_and_notify is entered: its first step, inside run_monitor.
Call(step) ==
    /\ loop = "call"
    /\ step
    /\ loop' = "poll"
    /\ UNCHANGED << running, clock, next_check_time, signal_at,
                    sleeps_after_signal, crash, tool >>

\* A later step of check_and_notify, inside run_monitor.
InPoll(step) ==
    /\ loop = "poll"
    /\ step
    /\ UNCHANGED loopvars

\* An exception inside check_and_notify before the detectors are called
\* (get_usage raising, or a snapshot whose fields cannot be formatted):
\* "except Exception: return False, None".
PollRaises ==
    /\ pc = "idle"
    /\ usage' = NoUsage
    /\ pc' = "idle"
    /\ pre' = state
    /\ is_reset' = [weekly |-> FALSE, rate |-> FALSE]
    /\ weekly_reset' = FALSE
    /\ rate_reset' = FALSE
    /\ requests' = << >>
    /\ delivery' = "none"
    /\ save_result' = "none"
    /\ last_poll' = "raised"
    /\ scenario' = Off
    /\ scenario_log' = << >>
    /\ next_check' = None
    /\ UNCHANGED << state, file, episode >>

\* Time passing while check_and_notify runs (the snapshot source and the
\* notifier talk to the network).
PollElapses ==
    /\ loop = "call" \/ (loop = "poll" /\ pc # "idle")
    /\ clock < MaxPollSeconds
    /\ clock' = clock + 1
    /\ UNCHANGED << running, loop, next_check_time, signal_at,
                    sleeps_after_signal, crash, tool >>
    /\ UNCHANGED pollvars

\* Faulty variant: the computed time is taken as it is, without the clamp.
Schedule_no_clamp ==
    /\ loop = "poll" /\ pc = "idle"
    /\ LET success == last_poll = "ok"
           now == 0
       IN  IF success /\ next_check # None
           THEN next_check_time' = next_check
           ELSE next_check_time' =
                    << now + CHECK_INTERVAL_MINUTES * SecondsPerMinute >>
    /\ loop' = "wait"
    /\ UNCHANGED << running, clock, signal_at, sleeps_after_signal, crash, tool >>
    /\ UNCHANGED pollvars

\* Faulty variant: a failed poll is retried at once.
Schedule_retry_at_once ==
    /\ loop = "poll" /\ pc = "idle"
    /\ LET success == last_poll = "ok"
           now == 0
       IN  IF success /\ next_check # None
           THEN LET wait_seconds == next_check[1] - now
                IN  next_check_time' = IF wait_seconds > max_wait
                                       THEN << now + max_wait >>
                                       ELSE next_check
           ELSE next_check_time' = << now >>
    /\ loop' = "wait"
    /\ UNCHANGED << running, clock, signal_at, sleeps_after_signal, crash, tool >>
    /\ UNCHANGED pollvars

\* Faulty variant: a failed poll backs off by twice the base interval.
Schedule_backoff ==
    /\ loop = "poll" /\ pc = "idle"
    /\ LET success == last_poll = "ok"
           now == 0
       IN  IF success /\ next_check # None
           THEN LET wait_seconds == next_check[1] - now
                IN  next_check_time' = IF wait_seconds > max_wait
                                       THEN << now + max_wait >>
                                       ELSE next_check
           ELSE next_check_time' =
                    << now + (CHECK_INTERVAL_MINUTES + CHECK_INTERVAL_MINUTES)
                               * SecondsPerMinute >>
    /\ loop' = "wait"
    /\ UNCHANGED << running, clock, signal_at, sleeps_after_signal, crash, tool >>
    /\ UNCHANGED pollvars

\* run_monitor after check_and_notify returned: "if success and
\* next_check" with its clamp to max_wait, else the base interval.
Schedule ==
    /\ loop = "poll" /\ pc = "idle"
    /\ LET success == last_poll = "ok"
           now == 0
       IN  IF success /\ next_check # None
           THEN LET wait_seconds == next_check[1] - now
                IN  next_check_time' = IF wait_seconds > max_wait
                                       THEN << now + max_wait >>
                                       ELSE next_check
           ELSE next_check_time' =
                    << now + CHECK_INTERVAL_MINUTES * SecondsPerMinute >>
    /\ loop' = "wait"
    /\ UNCHANGED << running, clock, signal_at, sleeps_after_signal, crash, tool >>
    /\ UNCHANGED pollvars

\* Faulty variant: the wait loop only looks at the deadline, not at `running'.
WaitLoop_deadline_only ==
    /\ loop = "wait"
    /\ loop' = IF next_check_time # None /\ clock >= next_check_time[1]
               THEN "outer" ELSE "sleep"
    /\ usage' = NoUsage
    /\ weekly_reset' = FALSE
    /\ rate_reset' = FALSE
    /\ next_check' = None
    /\ pre' = state
    /\ is_reset' = [weekly |-> FALSE, rate |-> FALSE]
    /\ requests' = << >>
    /\ delivery' = "none"
    /\ save_result' = "none"
    /\ UNCHANGED << running, clock, next_check_time, signal_at,
                    sleeps_after_signal, crash, tool >>
    /\ UNCHANGED << state, file, pc, last_poll, episode, scenario, scenario_log >>

\* The wait loop's "while running:" and "if next_check_time and now >=
\* next_check_time: break".  check_and_notify's locals are gone by now, and
\* the observers of the finished cycle are dropped with them.
WaitLoop ==
    /\ loop = "wait"
    /\ loop' = IF ~running THEN "outer"
               ELSE IF next_check_time # None /\ clock >= next_check_time[1]
                    THEN "outer" ELSE "sleep"
    /\ usage' = NoUsage
    /\ weekly_reset' = FALSE
    /\ rate_reset' = FALSE
    /\ next_check' = None
    /\ pre' = state
    /\ is_reset' = [weekly |-> FALSE, rate |-> FALSE]
    /\ requests' = << >>
    /\ delivery' = "none"
    /\ save_result' = "none"
    /\ UNCHANGED << running, clock, next_check_time, signal_at,
                    sleeps_after_signal, crash, tool >>
    /\ UNCHANGED << state, file, pc, last_poll, episode, scenario, scenario_log >>

\* "time.sleep(check_interval)" returns (a handled signal does not cut the
\* sleep short).
Sleep ==
    /\ loop = "sleep"
    /\ clock' = clock + check_interval
    /\ sleeps_after_signal' = IF running THEN sleeps_after_signal
                              ELSE sleeps_after_signal + 1
    /\ loop' = "wait"
    /\ UNCHANGED << running, next_check_time, signal_at, crash, tool >>
    /\ UNCHANGED pollvars

\* Every step of the monitor process itself (all but the signal).
LoopStep ==
    \/ OuterTest
    \/ Decide
    \/ \E u \in LoopSnapshots : Call(GetUsage(u))
    \/ Call(GetUsageFails)
    \/ Call(PollRaises)
    \/ PollElapses
    \/ InPoll(Detect)
    \/ \E ok \in BOOLEAN, outcome \in LoopSaveOutcomes : InPoll(NotifyBoth(ok, outcome))
    \/ \E ok \in BOOLEAN, outcome \in LoopSaveOutcomes : InPoll(NotifyWeekly(ok, outcome))
    \/ \E ok \in BOOLEAN, outcome \in LoopSaveOutcomes : InPoll(NotifyRate(ok, outcome))
    \/ InPoll(NotifyNone)
    \/ \E outcome \in LoopSaveOutcomes : InPoll(FinalSave(outcome))
    \/ Schedule
    \/ WaitLoop
    \/ Sleep

NextLoop == LoopStep \/ signal_handler

SpecLoop == InitLoop /\ [][NextLoop]_vars

\* Where the monitor process is: every step of it moves one of these.
position == << loop, pc, clock >>

\* The monitor process keeps executing as long as it has a step to take;
\* nothing obliges a signal to arrive.
SpecLoopFair == SpecLoop /\ WF_position(LoopStep)


-----------------------------------------------------------------------------
(* The monitor process killed and started again: the poll cycle with every *)
(* save and delivery succeeding, a kill between any two steps or inside a  *)
(* save_state call, and the StateManager built anew from the state file.   *)

\* What the state file can hold besides a torn write: a file that cannot be
\* opened, and valid JSON that is not an object.  A JSON object is a record.
Unreadable == [content |-> "Unreadable"]
NotObject == [content |-> "NotObject"]

\* The fields of the MonitorState dataclass that the model keeps.
Fields == DOMAIN MonitorState

\* Faulty variant: keys that are no field of MonitorState are skipped.
_load_state_skips_unknown_keys(f) ==
    IF f \in {NoFile, Unreadable, Torn, NotObject} THEN MonitorState
    ELSE [ k \in Fields |-> IF k \in DOMAIN f THEN f[k] ELSE MonitorState[k] ]

\* StateManager._load_state: MonitorState() when the file does not exist;
\* MonitorState() when open, json.load or MonitorState(**data) raises (the
\* file cannot be read, is not JSON, is no object, or has a key that is no
\* field); otherwise MonitorState(**data): the object's values, unvalidated,
\* and the dataclass default for every field the object lacks.
_load_state(f) ==
    IF f = NoFile THEN MonitorState
    ELSE IF f \in {Unreadable, Torn, NotObject} THEN MonitorState
    ELSE IF ~(DOMAIN f \subseteq Fields) THEN MonitorState
    ELSE IF DOMAIN f = Fields THEN f
    ELSE [ k \in Fields |-> IF k \in DOMAIN f THEN f[k] ELSE MonitorState[k] ]

\* Observer: what the killed process leaves behind for the properties: where
\* it was, its in-memory state, and the in-memory state at the end of the
\* last poll it completed.
CrashRecord(memory) ==
    [ at |-> pc,
      memory |-> memory,
      completed |-> IF pc = "idle" THEN state ELSE pre ]

\* The process is killed between two steps of check_and_notify, or between
\* two polls: the file is as the last save_state left it.
Crash ==
    /\ pc \in {"idle", "detect", "notify", "save"}
    /\ crash' = << CrashRecord(state) >>
    /\ pc' = "crashed"
    /\ UNCHANGED << state, file, usage, pre, is_reset, weekly_reset, rate_reset,
                    requests, delivery, save_result, last_poll, episode, scenario,
                    scenario_log, next_check, running, loop, clock,
                    next_check_time, signal_at, sleeps_after_signal, tool >>

\* The process is killed inside mark_notified's save_state, after
\* open(..., 'w') truncated the file and before json.dump completed.
CrashInMarkNotified ==
    /\ pc = "notify"
    /\ weekly_reset \/ rate_reset
    /\ file' = Torn
    /\ crash' = << CrashRecord(mark_notified(state, weekly_reset, rate_reset)) >>
    /\ pc' = "crashed"
    /\ UNCHANGED << state, usage, pre, is_reset, weekly_reset, rate_reset,
                    requests, delivery, save_result, last_poll, episode, scenario,
                    scenario_log, next_check, running, loop, clock,
                    next_check_time, signal_at, sleeps_after_signal, tool >>

\* The process is killed inside the save_state call at the end of the cycle,
\* after open(..., 'w') truncated the file and before json.dump completed.
CrashInFinalSave ==
    /\ pc = "save"
    /\ file' = Torn
    /\ crash' = << CrashRecord(state) >>
    /\ pc' = "crashed"
    /\ UNCHANGED << state, usage, pre, is_reset, weekly_reset, rate_reset,
                    requests, delivery, save_result, last_poll, episode, scenario,
                    scenario_log, next_check, running, loop, clock,
                    next_check_time, signal_at, sleeps_after_signal, tool >>

\* The monitor is started again: StateManager.__init__ loads the state file.
Restart ==
    /\ pc = "crashed"
    /\ state' = _load_state(file)
    /\ pc' = "idle"
    /\ usage' = NoUsage
    /\ pre' = state'
    /\ is_reset' = [weekly |-> FALSE, rate |-> FALSE]
    /\ weekly_reset' = FALSE
    /\ rate_reset' = FALSE
    /\ requests' = << >>
    /\ delivery' = "none"
    /\ save_result' = "none"
    /\ last_poll' = "restarted"
    /\ episode' = [weekly |-> "none", rate |-> "none"]
    /\ scenario' = Off
    /\ scenario_log' = << >>
    /\ next_check' = None
    /\ UNCHANGED << file, running, loop, clock, next_check_time, signal_at,
                    sleeps_after_signal, crash, tool >>

NextCrash ==
    \/ (\E u \in LoopSnapshots : GetUsage(u)) /\ UNCHANGED loopvars
    \/ GetUsageFails /\ UNCHANGED loopvars
    \/ Detect /\ UNCHANGED loopvars
    \/ NotifyBoth(TRUE, "ok") /\ UNCHANGED loopvars
    \/ NotifyWeekly(TRUE, "ok") /\ UNCHANGED loopvars
    \/ NotifyRate(TRUE, "ok") /\ UNCHANGED loopvars
    \/ NotifyNone /\ UNCHANGED loopvars
    \/ FinalSave("ok") /\ UNCHANGED loopvars
    \/ Crash
    \/ CrashInMarkNotified
    \/ CrashInFinalSave
    \/ Restart

SpecCrash == Init /\ [][NextCrash]_vars


-----------------------------------------------------------------------------
(* Properties of the detector: C1 on the first poll from the default      *)
(* state (Spec) and on any loaded state (SpecDetect), C3 and C4 on any    *)
(* loaded state (SpecDetect).                                             *)

\* C1: no spurious reset on cold start: for every prior state with
\* wasFull = false and lastPercent = 0 and every sample, neither detector
\* reports isReset on that call.
C1_NoSpuriousResetOnColdStart ==
    /\ (pc \in {"unit_weekly", "notify"} /\ ~pre.weekly_was_full
          /\ pre.weekly_last_percent = 0) => ~is_reset.weekly
    /\ (pc \in {"unit_rate", "notify"} /\ ~pre.rate_was_full
          /\ pre.rate_last_percent = 0) => ~is_reset.rate

\* The three signals of the weekly kind, on a prior state and a sample, with
\* the thresholds 20 %, 1 h, 160 h, 90 %, 50 points.
WeeklySignals(prior, percent, hours) ==
    \/ prior.weekly_was_full /\ percent < 20
    \/ prior.weekly_last_reset_hours < 60 /\ hours > 160 * 60
    \/ prior.weekly_last_percent > 90 /\ percent < prior.weekly_last_percent - 50

\* The three signals of the burst kind: 20 %, 0.5 h, 2 h, 80 %, 40 points.
RateSignals(prior, percent, hours) ==
    \/ prior.rate_was_full /\ percent < 20
    \/ prior.rate_last_last_reset_hours < 30 /\ hours > 2 * 60
    \/ prior.rate_last_percent > 80 /\ percent < prior.rate_last_percent - 40

\* C3: for each kind, every prior state and every sample, the detector
\* reports isReset exactly when at least one of level-crossing,
\* countdown-wrap and magnitude-drop holds on the state before the update.
C3_IsResetIffSomeSignal ==
    /\ pc = "unit_weekly" =>
          (is_reset.weekly <=> WeeklySignals(pre, usage.weekly_usage_percent,
                                             usage.weekly_reset_hours))
    /\ pc = "unit_rate" =>
          (is_reset.rate <=> RateSignals(pre, usage.rate_limit_percent,
                                         usage.rate_limit_reset_hours))

\* C3 witness: a weekly call in which only the countdown-wrap signal holds,
\* with a high percent before and after, reports a reset.
C3_Witness ==
    /\ pc = "unit_weekly"
    /\ is_reset.weekly
    /\ ~pre.weekly_was_full
    /\ pre.weekly_last_percent = 80 /\ usage.weekly_usage_percent = 100
    /\ pre.weekly_last_reset_hours = 12 /\ usage.weekly_reset_hours = 9601

\* C4: clear-then-check: a detector call that detects a reset leaves that
\* kind's reset_notified false and returns shouldNotify = isReset, whatever
\* reset_notified was before the call.
C4_ClearThenCheck ==
    /\ pc = "unit_weekly" =>
          /\ weekly_reset = is_reset.weekly
          /\ is_reset.weekly => ~state.weekly_reset_notified
    /\ pc = "unit_rate" =>
          /\ rate_reset = is_reset.rate
          /\ is_reset.rate => ~state.rate_reset_notified

\* C4 witness: a reset detected on a prior state whose reset_notified was
\* true yields a notification request.
C4_Witness ==
    /\ pc = "unit_weekly"
    /\ pre.weekly_reset_notified
    /\ is_reset.weekly
    /\ weekly_reset
    /\ ~state.weekly_reset_notified

-----------------------------------------------------------------------------
(* Properties of the poll cycle (checked under Spec).                     *)

Requested(shape) == \E i \in 1 .. Len(requests) : requests[i] = shape

\* check_and_notify is past its notification step.
AfterNotify == pc = "save" \/ CycleDone

\* The notifications the four scenario polls request, poll by poll.
ScenarioRequests == << << "both" >>, << >>, << "weekly" >>, << "both" >> >>

\* C2 as stated: the four scenario polls, with a notifier that always
\* succeeds, request nothing on polls 1, 2 and 3 and exactly one 'both
\* reset' notification on poll 4.
C2_OnlyFourthPollNotifies ==
    (CycleDone /\ scenario = Len(ScenarioSnapshots)) =>
        scenario_log = << << >>, << >>, << >>, << "both" >> >>

\* C2 amended: the four scenario polls request one 'both reset' on poll 1,
\* nothing on poll 2, one single weekly notification on poll 3 and exactly
\* one 'both reset' on poll 4.
C2_ScenarioNotifications ==
    (CycleDone /\ scenario \in 1 .. Len(ScenarioSnapshots)) =>
        /\ Len(scenario_log) = scenario
        /\ \A i \in 1 .. scenario : scenario_log[i] = ScenarioRequests[i]

\* C2 witness: the fourth scenario poll has completed with its 'both
\* reset' notification delivered.
C2_Witness ==
    /\ CycleDone
    /\ scenario = Len(ScenarioSnapshots)
    /\ Len(scenario_log) = Len(ScenarioSnapshots)
    /\ requests = << "both" >>
    /\ delivery = "ok"

StableWeekly ==
    /\ usage.weekly_usage_percent = pre.weekly_last_percent
    /\ usage.weekly_reset_hours = pre.weekly_last_reset_hours

StableRate ==
    /\ usage.rate_limit_percent = pre.rate_last_percent
    /\ usage.rate_limit_reset_hours = pre.rate_last_last_reset_hours

\* C5: idempotence: once a kind's reset was notified (reset_notified true),
\* a poll whose sample for that kind repeats the last observed one returns
\* shouldNotify = false, requests nothing for the kind and leaves
\* reset_notified true.
C5_StableSnapshotNeverRenotifies ==
    /\ (CycleDone /\ pre.weekly_reset_notified /\ StableWeekly) =>
          /\ ~weekly_reset
          /\ ~Requested("weekly") /\ ~Requested("both")
          /\ state.weekly_reset_notified
    /\ (CycleDone /\ pre.rate_reset_notified /\ StableRate) =>
          /\ ~rate_reset
          /\ ~Requested("rate") /\ ~Requested("both")
          /\ state.rate_reset_notified

\* C5 witness: a poll repeating the weekly sample of a delivered episode
\* has completed.
C5_Witness ==
    /\ CycleDone
    /\ pre.weekly_reset_notified
    /\ StableWeekly
    /\ episode.weekly = "delivered"
    /\ usage.weekly_usage_percent = 5

\* C6: when both detector calls return shouldNotify, exactly one
\* notification, the combined one, is requested; if it is delivered, both
\* reset_notified flags are true and a successful save has written them.
C6_BothResetOneCombined ==
    (AfterNotify /\ weekly_reset /\ rate_reset) =>
        /\ requests = << "both" >>
        /\ delivery = "ok" =>
              /\ state.weekly_reset_notified /\ state.rate_reset_notified
              /\ save_result # "none"
              /\ save_result = "ok" => file = state

\* C6 witness: a cycle with both resets, delivered and saved.
C6_Witness ==
    /\ CycleDone
    /\ weekly_reset /\ rate_reset
    /\ delivery = "ok"
    /\ file = state
    /\ file.weekly_reset_notified /\ file.rate_reset_notified

\* C7: when exactly one detector call returns shouldNotify, exactly one
\* notification, the single-kind one naming that kind, is requested; if it
\* is delivered only that kind's reset_notified is set and the other kind's
\* keeps the value it had before the cycle.
C7_SingleResetOneSingle ==
    /\ (AfterNotify /\ weekly_reset /\ ~rate_reset) =>
          /\ requests = << "weekly" >>
          /\ delivery = "ok" =>
                /\ state.weekly_reset_notified
                /\ state.rate_reset_notified = pre.rate_reset_notified
    /\ (AfterNotify /\ rate_reset /\ ~weekly_reset) =>
          /\ requests = << "rate" >>
          /\ delivery = "ok" =>
                /\ state.rate_reset_notified
                /\ state.weekly_reset_notified = pre.weekly_reset_notified

\* C7 witness: a delivered weekly-only notification with the burst flag
\* still false.
C7_Witness ==
    /\ CycleDone
    /\ weekly_reset /\ ~rate_reset
    /\ delivery = "ok"
    /\ state.weekly_reset_notified
    /\ ~state.rate_reset_notified

\* The hysteresis fields hold exactly the sample of this cycle.
HysteresisAdvanced ==
    /\ state.weekly_last_percent = usage.weekly_usage_percent
    /\ state.weekly_last_reset_hours = usage.weekly_reset_hours
    /\ state.weekly_was_full = (usage.weekly_usage_percent > 80)
    /\ state.rate_last_percent = usage.rate_limit_percent
    /\ state.rate_last_last_reset_hours = usage.rate_limit_reset_hours
    /\ state.rate_was_full = (usage.rate_limit_percent > 70)

\* C8: if the notifier reports failure, reset_notified is false at the end
\* of the cycle for every kind whose reset was detected in it, and the
\* hysteresis fields are advanced to the new sample and handed to the final
\* save (the file holds them when that write succeeds).
C8_FailedDeliveryNotMarked ==
    (CycleDone /\ delivery = "failed") =>
        /\ is_reset.weekly => ~state.weekly_reset_notified
        /\ is_reset.rate => ~state.rate_reset_notified
        /\ HysteresisAdvanced
        /\ save_result = "ok" => file = state

\* C8 witness: a cycle whose combined notification failed, saved.
C8_Witness ==
    /\ CycleDone
    /\ delivery = "failed"
    /\ is_reset.weekly /\ is_reset.rate
    /\ ~state.weekly_reset_notified /\ ~state.rate_reset_notified
    /\ file = state

MonotoneWeekly ==
    /\ usage.weekly_usage_percent >= pre.weekly_last_percent
    /\ usage.weekly_reset_hours <= pre.weekly_last_reset_hours

MonotoneRate ==
    /\ usage.rate_limit_percent >= pre.rate_last_percent
    /\ usage.rate_limit_reset_hours <= pre.rate_last_last_reset_hours

\* C9: missed-notification weakness: a poll that starts with a kind's reset
\* detected but undelivered, and whose sample for the kind has non-decreasing
\* percent and non-increasing reset hours, fires no rule, requests nothing
\* for that kind and leaves the episode undelivered, although the notifier
\* is not even asked.
C9_UndeliveredResetStaysMissed ==
    /\ (CycleDone /\ episode.weekly # "none" /\ ~pre.weekly_reset_notified
          /\ MonotoneWeekly) =>
          /\ ~is_reset.weekly /\ ~weekly_reset
          /\ ~Requested("weekly") /\ ~Requested("both")
          /\ episode.weekly = "pending" /\ ~state.weekly_reset_notified
    /\ (CycleDone /\ episode.rate # "none" /\ ~pre.rate_reset_notified
          /\ MonotoneRate) =>
          /\ ~is_reset.rate /\ ~rate_reset
          /\ ~Requested("rate") /\ ~Requested("both")
          /\ episode.rate = "pending" /\ ~state.rate_reset_notified

\* C9 witness: after a failed delivery, a later poll with the post-reset
\* values has completed with no notification requested at all and both
\* episodes still undelivered.
C9_Witness ==
    /\ CycleDone
    /\ episode.weekly = "pending" /\ episode.rate = "pending"
    /\ MonotoneWeekly /\ MonotoneRate
    /\ requests = << >>
    /\ delivery = "none"

\* C10: in every state reached from the default state, a kind's
\* reset_notified is true exactly when a notification covering the kind was
\* delivered after the most recent detected reset of the kind.
C10_NotifiedIffDeliveredSinceReset ==
    /\ state.weekly_reset_notified <=> episode.weekly = "delivered"
    /\ state.rate_reset_notified <=> episode.rate = "delivered"

\* C10 witness: a later burst reset was detected after a delivered one and
\* its delivery failed, while the weekly episode stays delivered.
C10_Witness ==
    /\ CycleDone
    /\ pre.rate_reset_notified /\ pre.weekly_reset_notified
    /\ is_reset.rate /\ delivery = "failed"
    /\ ~state.rate_reset_notified
    /\ state.weekly_reset_notified


-----------------------------------------------------------------------------
(* Properties of the hysteresis update: C11 on one detector call from any *)
(* loaded state (SpecDetect), C12 along the polls of a monitor started    *)
(* from the default state (Spec).                                         *)

\* C11: after every detector call, whatever isReset was, the kind's
\* lastPercent equals the sample's percent, its lastResetHours equals the
\* sample's reset time, and its wasFull is (percent > 80) for the weekly
\* kind and (percent > 70) for the burst kind.
C11_HysteresisAlwaysAdvanced ==
    /\ pc = "unit_weekly" =>
          /\ state.weekly_last_percent = usage.weekly_usage_percent
          /\ state.weekly_last_reset_hours = usage.weekly_reset_hours
          /\ state.weekly_was_full = (usage.weekly_usage_percent > 80)
    /\ pc = "unit_rate" =>
          /\ state.rate_last_percent = usage.rate_limit_percent
          /\ state.rate_last_last_reset_hours = usage.rate_limit_reset_hours
          /\ state.rate_was_full = (usage.rate_limit_percent > 70)

\* A weekly call that saw no reset and still moved all three fields.
C11_Witness ==
    /\ pc = "unit_weekly" /\ ~is_reset.weekly
    /\ pre.weekly_last_percent = 50 /\ pre.weekly_last_reset_hours = 120
    /\ ~pre.weekly_was_full
    /\ state.weekly_last_percent = 81 /\ state.weekly_last_reset_hours = 60
    /\ state.weekly_was_full

\* C12: from the default state, after any sequence of polls, the weekly
\* wasFull equals (weekly lastPercent > 80) and the burst wasFull equals
\* (burst lastPercent > 70).
C12_WasFullTracksLastPercent ==
    /\ state.weekly_was_full = (state.weekly_last_percent > 80)
    /\ state.rate_was_full = (state.rate_last_percent > 70)

\* A completed poll after which the burst kind is "full" at 75% while the
\* weekly kind, having been full, no longer is.
C12_Witness ==
    /\ CycleDone
    /\ state.rate_last_percent = 75 /\ state.rate_was_full
    /\ pre.weekly_was_full /\ state.weekly_last_percent = 5
    /\ ~state.weekly_was_full


-----------------------------------------------------------------------------
(* Properties of the scheduling loop (SpecLoop, SpecLoopFair).  Times are  *)
(* seconds since the `now' run_monitor read before the poll.               *)

Min(a, b) == IF a < b THEN a ELSE b

\* check_and_notify has just returned (True, next_check) and run_monitor
\* has set next_check_time from it; the wait loop has not run yet.
ScheduledAfterSuccess ==
    loop = "wait" /\ pc = "idle" /\ last_poll = "ok" /\ next_check # None

\* min(w, b) hours + 5 minutes for the snapshot of the poll, in seconds.
ResetWait ==
    timedelta_hours(Min(usage.weekly_reset_hours, usage.rate_limit_reset_hours))
      + ResetMarginMinutes * SecondsPerMinute

\* C13 as stated: after a successful poll at time now the wait until the
\* next poll, counted from now, equals min(min(w, b) + 5 min, maxInterval).
C13_WaitIsMinOfResetWaitAndMaxInterval ==
    ScheduledAfterSuccess =>
        next_check_time = << Min(ResetWait, max_wait) >>

\* C13, amended: after a successful poll started at time now that took d
\* seconds, the next poll is scheduled min(w, b) hours + 5 minutes after
\* the end of the poll, now + d, unless that is more than maxInterval after
\* now, in which case it is scheduled at now + maxInterval: the wait counted
\* from now equals min(d + min(w, b) + 5 min, maxInterval).
C13_WaitCountsFromEndOfPoll ==
    ScheduledAfterSuccess =>
        next_check_time = << Min(clock + ResetWait, max_wait) >>

\* A poll that took 2 seconds, whose snapshot puts both resets 0.05 h away:
\* the next poll is 482 seconds after the poll began, inside the base interval.
C13_Witness ==
    /\ ScheduledAfterSuccess
    /\ clock = 2
    /\ usage.weekly_reset_hours = 3 /\ usage.rate_limit_reset_hours = 3
    /\ next_check_time = << 482 >>

\* C14: after a failed poll (no snapshot, or an exception inside
\* check_and_notify) the next poll is at now + maxInterval and the loop is
\* Idle again; no next time was computed from a snapshot; the loop has not
\* stopped unless cancellation was requested.
C14_FailedPollRetriesAtBaseInterval ==
    /\ last_poll \in {"failed", "raised"} =>
          /\ next_check = None
          /\ loop \in {"wait", "sleep"} => next_check_time = << max_wait >>
          /\ loop = "stopped" => ~running
    /\ (loop = "poll" /\ pc = "idle") => ENABLED Schedule

\* The loop waiting after a poll that raised, 600 seconds scheduled.
C14_Witness ==
    /\ loop = "sleep" /\ running
    /\ last_poll = "raised"
    /\ next_check_time = << 600 >>
    /\ clock = 1

\* C15: once the signal has cleared `running' no new poll is started, and a
\* poll in flight when the signal arrived is completed before the loop exits,
\* wherever in the loop the signal arrived.
C15_NoPollStartsAfterSignal ==
    /\ (loop \in {"call", "poll"} /\ ~running) => signal_at = "Polling"
    /\ loop = "stopped" => pc = "idle" /\ last_poll # "running"

\* C16: a signal arriving while the scheduler is Idle stops the loop within
\* one tick: at most one time.sleep returns after it, no poll is executed,
\* and the loop reaches its end.
C16_IdleSignalNoPollOneTick ==
    signal_at = "Idle" =>
        /\ sleeps_after_signal <= 1
        /\ loop \in {"wait", "sleep", "outer", "stopped"}
        /\ (sleeps_after_signal = 1 => loop # "sleep")

C16_PromptCancellation ==
    /\ []C16_IdleSignalNoPollOneTick
    /\ <>[](signal_at = "Idle" => loop = "stopped")

\* The loop stopped one sleep after a signal that came more than five
\* minutes before the next scheduled poll.
C16_Witness ==
    /\ loop = "stopped"
    /\ signal_at = "Idle"
    /\ sleeps_after_signal = 1
    /\ next_check_time # None
    /\ next_check_time[1] - clock > ResetMarginMinutes * SecondsPerMinute

\* C17: the loop is stopped only if cancellation was requested; after a
\* snapshot failure, a delivery failure, a save failure or an exception in
\* the poll the loop is waiting with a next poll scheduled.
C17_OnlyCancellationStops ==
    /\ loop = "stopped" => ~running
    /\ loop \in {"wait", "sleep"} => next_check_time # None

\* The loop back in its wait, next poll scheduled, after a poll whose
\* delivery failed and whose final save failed.
C17_Witness ==
    /\ loop = "wait" /\ running
    /\ delivery = "failed"
    /\ save_result = "torn"
    /\ next_check_time # None

\* C18, the safety part: the loop sleeps only while the next poll is not due;
\* each pass of the outer loop polls; before the first poll no time is spent
\* waiting; the time since the start of the previous poll never exceeds
\* maxInterval plus one tick.
C18_GapBounded ==
    /\ loop = "sleep" => next_check_time # None /\ clock < next_check_time[1]
    /\ loop = "decide" => next_check_time = None \/ clock >= next_check_time[1]
    /\ last_poll = "none" => loop \in {"outer", "decide", "call", "stopped"}
    /\ clock <= max_wait + check_interval

-----------------------------------------------------------------------------
(* Properties of persistence: C19 on the poll cycle (Spec), C20 on the    *)
(* monitor killed and started again (SpecCrash).                          *)

\* C19: at the end of every poll cycle that obtained a snapshot, if the save
\* succeeded the file holds the in-memory MonitorState; a save is made after
\* a successful delivery (by mark_notified) and again at the end of the cycle.
C19_PersistedEqualsMemory ==
    /\ (CycleDone /\ save_result = "ok") => file = state
    /\ CycleDone => save_result # "none"
    /\ (pc = "save" /\ delivery = "ok") => save_result # "none"
    /\ (pc = "save" /\ delivery = "ok" /\ save_result = "ok") => file = state

\* A completed cycle that detected a weekly reset, delivered the
\* notification, and left the file equal to the marked in-memory state.
C19_Witness ==
    /\ CycleDone /\ save_result = "ok"
    /\ delivery = "ok"
    /\ ~pre.weekly_reset_notified /\ state.weekly_reset_notified
    /\ state.weekly_last_percent # pre.weekly_last_percent
    /\ file = state

\* The hysteresis fields of a MonitorState: what the detectors update.
Hysteresis(st) ==
    << st.weekly_was_full, st.weekly_last_percent, st.weekly_last_reset_hours,
       st.rate_was_full, st.rate_last_percent, st.rate_last_last_reset_hours >>

\* The monitor has just been started again after a kill.
Restarted == pc = "idle" /\ last_poll = "restarted" /\ crash # None

\* C20: a crash at any point of a poll cycle loses at most that poll's
\* update: the state loaded on restart is the in-memory state at the end of
\* the last completed poll, or a state that already contains the detector
\* update of the poll in flight; it is never older.
C20_CrashLosesAtMostOnePoll ==
    Restarted =>
        \/ state = crash[1].completed
        \/ /\ crash[1].at \in {"notify", "save"}
           /\ Hysteresis(state) = Hysteresis(crash[1].memory)


-----------------------------------------------------------------------------
(* Further properties of the detector (SpecDetect), of a poll without a    *)
(* snapshot (Spec) and of the scheduling loop (SpecLoop).                  *)

\* C23: ordinary progress is no reset: for every prior state whose wasFull
\* equals (lastPercent > 80), resp. (lastPercent > 70), and every sample
\* whose percent is not below lastPercent and whose reset time is not above
\* lastResetHours, the detector reports no reset and asks for no notification.
C23_NoResetOnOrdinaryProgress ==
    /\ ( /\ pc = "unit_weekly"
         /\ pre.weekly_was_full = (pre.weekly_last_percent > WeeklyFullThreshold)
         /\ usage.weekly_usage_percent >= pre.weekly_last_percent
         /\ usage.weekly_reset_hours <= pre.weekly_last_reset_hours )
       => (~is_reset.weekly /\ ~weekly_reset)
    /\ ( /\ pc = "unit_rate"
         /\ pre.rate_was_full = (pre.rate_last_percent > RateFullThreshold)
         /\ usage.rate_limit_percent >= pre.rate_last_percent
         /\ usage.rate_limit_reset_hours <= pre.rate_last_last_reset_hours )
       => (~is_reset.rate /\ ~rate_reset)

\* A burst call on a low, not-full prior state with a slightly higher
\* percent and a shorter countdown: no reset.
C23_Witness ==
    /\ pc = "unit_rate"
    /\ ~pre.rate_was_full /\ pre.rate_last_percent = 10
    /\ pre.rate_last_last_reset_hours = 120 /\ ~pre.rate_reset_notified
    /\ usage.rate_limit_percent = 19 /\ usage.rate_limit_reset_hours = 60
    /\ ~is_reset.rate /\ ~rate_reset

\* C24: a poll whose snapshot source returns no snapshot changes neither the
\* in-memory MonitorState nor the state file, and requests no notification.
C24_FailedPollChangesNothing ==
    [][ last_poll' = "failed" =>
          (state' = state /\ file' = file /\ requests' = << >>) ]_vars

\* A failed poll of a monitor holding a non-default state with a notified
\* flag set, the state having been saved before.
C24_Witness ==
    /\ pc = "idle" /\ last_poll = "failed"
    /\ state.weekly_reset_notified
    /\ state.weekly_last_percent = 100
    /\ file = state
    /\ requests = << >>

WeeklyFields(st) ==
    << st.weekly_was_full, st.weekly_last_percent, st.weekly_last_reset_hours,
       st.weekly_reset_notified >>

RateFields(st) ==
    << st.rate_was_full, st.rate_last_percent, st.rate_last_last_reset_hours,
       st.rate_reset_notified >>

\* A state with one kind's fields taken from st and the other kind's fields
\* at their defaults.
WeeklyOnly(st) ==
    [st EXCEPT !.rate_was_full = FALSE, !.rate_last_percent = 0,
               !.rate_last_last_reset_hours = 0, !.rate_reset_notified = FALSE]

RateOnly(st) ==
    [st EXCEPT !.weekly_was_full = FALSE, !.weekly_last_percent = 0,
               !.weekly_last_reset_hours = 0, !.weekly_reset_notified = FALSE]

\* C25: the two kinds are tracked independently: update_and_check_weekly
\* leaves the four burst fields as they were and update_and_check_rate the
\* four weekly fields, and what a call returns and writes for its own kind
\* is what it would return and write with the other kind's fields at their
\* defaults.
C25_KindsAreIndependent ==
    /\ pc = "unit_weekly" =>
          /\ RateFields(state) = RateFields(pre)
          /\ LET own == update_and_check_weekly(WeeklyOnly(pre),
                             usage.weekly_usage_percent, usage.weekly_reset_hours)
             IN  /\ own.ret = weekly_reset
                 /\ own.is_reset = is_reset.weekly
                 /\ WeeklyFields(own.state) = WeeklyFields(state)
    /\ pc = "unit_rate" =>
          /\ WeeklyFields(state) = WeeklyFields(pre)
          /\ LET own == update_and_check_rate(RateOnly(pre),
                             usage.rate_limit_percent, usage.rate_limit_reset_hours)
             IN  /\ own.ret = rate_reset
                 /\ own.is_reset = is_reset.rate
                 /\ RateFields(own.state) = RateFields(state)

\* A weekly call that detects a reset on a state whose burst kind is full,
\* at 95%, and already notified: the burst fields are as before.
C25_Witness ==
    /\ pc = "unit_weekly"
    /\ is_reset.weekly /\ weekly_reset
    /\ pre.rate_was_full /\ pre.rate_last_percent = 95 /\ pre.rate_reset_notified
    /\ state.rate_was_full /\ state.rate_last_percent = 95
    /\ state.rate_reset_notified

\* C26: no busy polling: after every poll, successful or failed, the next
\* poll is scheduled at least min(5 minutes, maxInterval) after the start of
\* the poll, and a poll other than the first starts only after the loop has
\* waited that long.
C26_NoBusyPolling ==
    /\ (loop \in {"wait", "sleep"} /\ next_check_time # None) =>
          next_check_time[1] >= Min(ResetMarginMinutes * SecondsPerMinute, max_wait)
    /\ (loop = "decide" /\ last_poll # "none") =>
          clock >= Min(ResetMarginMinutes * SecondsPerMinute, max_wait)

\* The second poll about to start 480 seconds after the first, whose
\* snapshot put both resets 0.05 h away.
C26_Witness ==
    /\ loop = "decide" /\ running
    /\ last_poll = "ok"
    /\ clock = 480
    /\ next_check_time = << 480 >>


-----------------------------------------------------------------------------
(* Start-up: StateManager.__init__ on every kind of state file.            *)

\* A state that save_state can have written: was_full follows the percent.
SavedState(w, r, wn, rn) ==
    [ weekly_was_full |-> w[1] > WeeklyFullThreshold,
      weekly_last_percent |-> w[1],
      weekly_last_reset_hours |-> w[2],
      rate_was_full |-> r[1] > RateFullThreshold,
      rate_last_percent |-> r[1],
      rate_last_last_reset_hours |-> r[2],
      weekly_reset_notified |-> wn,
      rate_reset_notified |-> rn ]

SavedStates ==
    { SavedState(w, r, wn, rn) :
      w \in WeeklySamples, r \in RateSamples, wn \in BOOLEAN, rn \in BOOLEAN }

\* A JSON object with the keys of st and one key that is no field.
WithUnknownKey(st) ==
    [ k \in Fields \cup {"schema_version"} |->
        IF k = "schema_version" THEN 1 ELSE st[k] ]

\* A JSON object with the keys of st except those in missing.
WithoutKeys(st, missing) == [ k \in Fields \ missing |-> st[k] ]

RateKeys ==
    { "rate_was_full", "rate_last_percent", "rate_last_last_reset_hours",
      "rate_reset_notified" }

NotifiedKeys == { "weekly_reset_notified", "rate_reset_notified" }

StateFiles ==
    {NoFile, Unreadable, Torn, NotObject}
      \cup SavedStates
      \cup { WithUnknownKey(st) : st \in SavedStates }
      \cup { WithoutKeys(st, RateKeys) : st \in SavedStates }
      \cup { WithoutKeys(st, NotifiedKeys) : st \in SavedStates }

InitLoad ==
    /\ file \in StateFiles
    /\ state = MonitorState
    /\ pc = "start"
    /\ usage = NoUsage
    /\ pre = MonitorState
    /\ is_reset = [weekly |-> FALSE, rate |-> FALSE]
    /\ weekly_reset = FALSE
    /\ rate_reset = FALSE
    /\ requests = << >>
    /\ delivery = "none"
    /\ save_result = "none"
    /\ last_poll = "none"
    /\ episode = [weekly |-> "none", rate |-> "none"]
    /\ scenario = Off
    /\ scenario_log = << >>
    /\ next_check = None
    /\ LoopOff

\* StateManager.__init__: self.state = self._load_state().
StateManager_init ==
    /\ pc = "start"
    /\ state' = _load_state(file)
    /\ pre' = state'
    /\ pc' = "idle"
    /\ UNCHANGED << file, usage, is_reset, weekly_reset, rate_reset, requests,
                    delivery, save_result, last_poll, episode, scenario,
                    scenario_log, next_check >>
    /\ UNCHANGED loopvars

NextLoad == StateManager_init

SpecLoad == InitLoad /\ [][NextLoad]_vars

\* The state file is a JSON object with exactly the fields of MonitorState.
ExpectedShape(f) ==
    /\ f \notin {NoFile, Unreadable, Torn, NotObject}
    /\ DOMAIN f = Fields

\* _load_state rejects the file: open, json.load or MonitorState(**data)
\* raises inside the try block.
Rejected(f) ==
    \/ f \in {Unreadable, Torn, NotObject}
    \/ ~(DOMAIN f \subseteq Fields)

\* C21 as stated: whenever the state file is absent, unreadable, not JSON or
\* of another shape than the expected one, StateManager starts with the
\* default MonitorState.
C21_UnexpectedShapeLoadsDefault ==
    pc = "idle" => (~ExpectedShape(file) => state = MonitorState)

\* C21, amended: StateManager always starts with a complete MonitorState;
\* it is the default when the file is absent or rejected (unreadable, not
\* JSON, no object, or with a key that is no field), and otherwise it holds
\* the file's value for every key of the file and the default for every
\* field the file lacks.
C21_LoadFallsBackOnErrorOnly ==
    pc = "idle" =>
      /\ DOMAIN state = Fields
      /\ (file = NoFile \/ Rejected(file)) => state = MonitorState
      /\ ~(file = NoFile \/ Rejected(file)) =>
            \A k \in Fields :
              state[k] = IF k \in DOMAIN file THEN file[k] ELSE MonitorState[k]

\* A monitor started on a file with an unknown key next to non-default
\* values: it holds the default state.
C21_Witness ==
    /\ pc = "idle"
    /\ Fields \subseteq DOMAIN file /\ DOMAIN file # Fields
    /\ file.weekly_last_percent = 100 /\ file.weekly_reset_notified
    /\ state = MonitorState


-----------------------------------------------------------------------------
(* update_usage.py: the manual update tool, which rewrites the state file  *)
(* that the monitor loads, reads its snapshots from and saves to.          *)

MinutesPerHour == 60
HoursPerDay == 24

\* dict.get(key, default) on a JSON object.
Get(d, key, default) == IF key \in DOMAIN d THEN d[key] ELSE default

\* update_usage.py's load_state: json.load of the file, without a try, or
\* the default dict, which has the eight keys of MonitorState.
load_state(f) == IF f = NoFile THEN MonitorState ELSE f

\* load_state or the state.get calls after it raise: the tool ends with a
\* traceback and writes nothing.
load_state_raises(f) == f \in {Unreadable, Torn, NotObject}

\* The arguments of update_usage: percent left and time to reset per kind.
Args(w, h) ==
    [ weekly_left |-> w[1], weekly_days |-> w[2], weekly_hours |-> w[3],
      weekly_mins |-> w[4],
      hourly_left |-> h[1], hourly_hours |-> h[2], hourly_mins |-> h[3] ]

\* update_usage(...) on the loaded dict d: the dict it saves, its two locals
\* weekly_reset_detected and rate_reset_detected, and what it returns.
\* Reset times are in minutes: 1 h = 60, 160 h = 9600, 0.5 h = 30, 2 h = 120,
\* and the defaults 168 h = 10080 and 3 h = 180.
update_usage(d, a) ==
    LET weekly_used == 100 - a.weekly_left
        hourly_used == 100 - a.hourly_left
        weekly_reset_hours ==
            a.weekly_days * HoursPerDay * MinutesPerHour
              + a.weekly_hours * MinutesPerHour + a.weekly_mins
        hourly_reset_hours == a.hourly_hours * MinutesPerHour + a.hourly_mins
        old_weekly_pct == Get(d, "weekly_last_percent", 0)
        old_weekly_reset == Get(d, "weekly_last_reset_hours", 168 * MinutesPerHour)
        old_rate_pct == Get(d, "rate_last_percent", 0)
        old_rate_reset == Get(d, "rate_last_last_reset_hours", 3 * MinutesPerHour)
        weekly_reset_detected ==
            IF old_weekly_pct > 80 /\ weekly_used < 20 THEN TRUE
            ELSE IF old_weekly_reset < 60 /\ weekly_reset_hours > 9600 THEN TRUE
            ELSE FALSE
        rate_reset_detected ==
            IF old_rate_pct > 80 /\ hourly_used < 20 THEN TRUE
            ELSE IF old_rate_reset < 30 /\ hourly_reset_hours > 120 THEN TRUE
            ELSE FALSE
        written ==
            { "weekly_last_percent", "weekly_last_reset_hours", "weekly_was_full",
              "rate_last_percent", "rate_last_last_reset_hours", "rate_was_full" }
              \cup (IF weekly_reset_detected THEN {"weekly_reset_notified"} ELSE {})
              \cup (IF rate_reset_detected THEN {"rate_reset_notified"} ELSE {})
        new(key) ==
            CASE key = "weekly_last_percent" -> weekly_used
              [] key = "weekly_last_reset_hours" -> weekly_reset_hours
              [] key = "weekly_was_full" -> weekly_used > 80
              [] key = "rate_last_percent" -> hourly_used
              [] key = "rate_last_last_reset_hours" -> hourly_reset_hours
              [] key = "rate_was_full" -> hourly_used > 70
              [] key = "weekly_reset_notified" -> FALSE
              [] key = "rate_reset_notified" -> FALSE
    IN  [ state |-> [ key \in DOMAIN d \cup written |->
                        IF key \in written THEN new(key) ELSE d[key] ],
          weekly_used |-> weekly_used,
          weekly_reset_hours |-> weekly_reset_hours,
          hourly_used |-> hourly_used,
          hourly_reset_hours |-> hourly_reset_hours,
          weekly_reset_detected |-> weekly_reset_detected,
          rate_reset_detected |-> rate_reset_detected,
          ret |-> weekly_reset_detected \/ rate_reset_detected ]

\* update_usage up to "state = load_state()": the tool holds the file's
\* content; limit bounds the number of runs.
ToolLoad(a, limit) ==
    /\ tool.pc \in {"off", "done", "failed"}
    /\ tool.runs < limit
    /\ tool' = IF load_state_raises(file)
               THEN [ pc |-> "failed", runs |-> tool.runs + 1,
                      wrote_since_start |-> tool.wrote_since_start,
                      unread |-> tool.unread, lost |-> tool.lost ]
               ELSE [ pc |-> "loaded", runs |-> tool.runs + 1,
                      wrote_since_start |-> tool.wrote_since_start,
                      unread |-> tool.unread, lost |-> tool.lost,
                      state |-> load_state(file), args |-> a ]
    /\ UNCHANGED << state, file, pc, usage, pre, is_reset, weekly_reset,
                    rate_reset, requests, delivery, save_result, last_poll,
                    episode, scenario, scenario_log, next_check, running, loop,
                    clock, next_check_time, signal_at, sleeps_after_signal,
                    crash >>

\* The rest of update_usage: detection on the loaded dict, save_state(state)
\* and the printed result.  Observers: prior is the dict as loaded,
\* wrote_since_start says that the tool has written the file since the
\* monitor started, unread that the monitor has fetched no snapshot since
\* this write, lost that the monitor has overwritten an unread write.
ToolSave ==
    /\ tool.pc = "loaded"
    /\ LET r == update_usage(tool.state, tool.args)
       IN  /\ file' = r.state
           /\ tool' = [ pc |-> "done", runs |-> tool.runs,
                        wrote_since_start |-> tool.wrote_since_start \/ pc # "start",
                        unread |-> pc # "start", lost |-> tool.lost,
                        prior |-> tool.state, result |-> r ]
    /\ UNCHANGED << state, pc, usage, pre, is_reset, weekly_reset,
                    rate_reset, requests, delivery, save_result, last_poll,
                    episode, scenario, scenario_log, next_check, running, loop,
                    clock, next_check_time, signal_at, sleeps_after_signal,
                    crash >>

\* Arguments the tool is run with: (percent left, days, hours, minutes) for
\* the weekly quota and (percent left, hours, minutes) for the burst quota.
ToolWeeklyList ==
    << <<95, 6, 23, 0>>, <<5, 0, 0, 30>>, <<70, 4, 2, 0>>, <<81, 6, 16, 1>>,
       <<80, 6, 16, 0>>, <<0, 0, 0, 59>> >>
ToolHourlyList ==
    << <<95, 2, 30>>, <<25, 0, 20>>, <<70, 2, 1>>, <<81, 2, 0>>,
       <<80, 0, 29>>, <<0, 0, 12>> >>

\* How many of the listed arguments the tool is run with, per kind.
NumToolArgs == 5

ToolArgs ==
    { Args(ToolWeeklyList[i], ToolHourlyList[j]) :
      i \in { k \in 1 .. Len(ToolWeeklyList) : k <= NumToolArgs },
      j \in { k \in 1 .. Len(ToolHourlyList) : k <= NumToolArgs } }

\* State files as the monitor or the tool leave them, one kind away from
\* its defaults.
ToolPriorFiles ==
    { SavedState(<< p, h >>, << 0, 0 >>, n, FALSE) :
        p \in Percents, h \in Minutes, n \in BOOLEAN }
      \cup { SavedState(<< 0, 0 >>, << p, h >>, FALSE, n) :
               p \in Percents, h \in Minutes, n \in BOOLEAN }

\* The tool is run once on a state file; no monitor is running.
InitTool ==
    /\ file \in ToolPriorFiles
    /\ state = MonitorState
    /\ pc = "start"
    /\ usage = NoUsage
    /\ pre = MonitorState
    /\ is_reset = [weekly |-> FALSE, rate |-> FALSE]
    /\ weekly_reset = FALSE
    /\ rate_reset = FALSE
    /\ requests = << >>
    /\ delivery = "none"
    /\ save_result = "none"
    /\ last_poll = "none"
    /\ episode = [weekly |-> "none", rate |-> "none"]
    /\ scenario = Off
    /\ scenario_log = << >>
    /\ next_check = None
    /\ LoopOff

NextTool ==
    \/ \E a \in ToolArgs : ToolLoad(a, 1)
    \/ ToolSave

SpecTool == InitTool /\ [][NextTool]_vars

\* C29: the tool and the monitor agree on reset detection: whenever
\* update_usage has run on a persisted state with a new sample, it reports a
\* reset for a kind, and has cleared that kind's reset_notified in the file,
\* exactly when StateManager's detector for that kind reports is_reset on
\* the same prior state and sample.
C29_ToolAgreesWithDetector ==
    tool.pc = "done" =>
      LET r == tool.result
          weekly == WeeklyIsReset(tool.prior, r.weekly_used, r.weekly_reset_hours)
          rate == RateIsReset(tool.prior, r.hourly_used, r.hourly_reset_hours)
      IN  /\ r.weekly_reset_detected = weekly
          /\ r.rate_reset_detected = rate
          /\ weekly => ~file.weekly_reset_notified
          /\ rate => ~file.rate_reset_notified


-----------------------------------------------------------------------------
(* The monitor on the state file client: snapshots are read from the state *)
(* file the monitor saves to, which update_usage.py rewrites by hand.      *)

\* Faulty variant: the burst reset time is read under the key
\* rate_last_reset_hours, which no writer of the file uses.
StateFileClient_get_usage_wrong_key(f) ==
    IF f = NoFile THEN NoUsage
    ELSE IF f \in {Unreadable, Torn, NotObject} THEN NoUsage
    ELSE UsageInfo(Get(f, "weekly_last_percent", 0),
                   Get(f, "weekly_last_reset_hours", 0),
                   Get(f, "rate_last_percent", 0),
                   Get(f, "rate_last_reset_hours", 0))

\* StateFileClient.get_usage: None when the file does not exist or when
\* reading it raises; otherwise a UsageInfo of the file's four values.
StateFileClient_get_usage(f) ==
    IF f = NoFile THEN NoUsage
    ELSE IF f \in {Unreadable, Torn, NotObject} THEN NoUsage
    ELSE UsageInfo(Get(f, "weekly_last_percent", 0),
                   Get(f, "weekly_last_reset_hours", 0),
                   Get(f, "rate_last_percent", 0),
                   Get(f, "rate_last_last_reset_hours", 0))

\* The variables of run_monitor and of the crash observer, without the tool.
loopctl == << running, loop, clock, next_check_time, signal_at,
              sleeps_after_signal, crash >>

\* How often the tool is run, and with how many of its argument pairs.
MaxUpdates == 2
NumManualArgs == 3

\* Which weekly and which burst arguments the runs combine.
ManualArgList == << << 1, 1 >>, << 2, 2 >>, << 2, 1 >>, << 1, 2 >> >>

ManualArgs ==
    { Args(ToolWeeklyList[ManualArgList[i][1]], ToolHourlyList[ManualArgList[i][2]]) :
      i \in { k \in 1 .. Len(ManualArgList) : k <= NumManualArgs } }

\* The state file before the first run of the tool: none, or one that an
\* earlier monitor or tool run left.
ManualFiles ==
    {NoFile} \cup { SavedState(WeeklySampleList[i], RateSampleList[i], n, n) :
                      i \in 1 .. 2, n \in BOOLEAN }

InitManual ==
    /\ file \in ManualFiles
    /\ state = MonitorState
    /\ pc = "start"
    /\ usage = NoUsage
    /\ pre = MonitorState
    /\ is_reset = [weekly |-> FALSE, rate |-> FALSE]
    /\ weekly_reset = FALSE
    /\ rate_reset = FALSE
    /\ requests = << >>
    /\ delivery = "none"
    /\ save_result = "none"
    /\ last_poll = "none"
    /\ episode = [weekly |-> "none", rate |-> "none"]
    /\ scenario = Off
    /\ scenario_log = << >>
    /\ next_check = None
    /\ LoopOff

\* run_monitor's start: create_client finds the state file and returns a
\* StateFileClient on it; StateManager.__init__ loads the same file.
StartMonitor ==
    /\ pc = "start"
    /\ file # NoFile
    /\ state' = _load_state(file)
    /\ pre' = state'
    /\ pc' = "idle"
    /\ UNCHANGED << file, usage, is_reset, weekly_reset, rate_reset, requests,
                    delivery, save_result, last_poll, episode, scenario,
                    scenario_log, next_check >>
    /\ UNCHANGED loopvars

\* client.get_usage() of check_and_notify, on the StateFileClient.
FileGetUsage ==
    /\ pc = "idle"
    /\ IF StateFileClient_get_usage(file) = NoUsage
       THEN GetUsageFails
       ELSE GetUsage(StateFileClient_get_usage(file))
    /\ tool' = [tool EXCEPT !.unread = FALSE]
    /\ UNCHANGED loopctl

\* Observer of a step in which the monitor may write the state file: a write
\* of the tool that no poll has read is gone once the file has changed.
MonitorWrites ==
    /\ tool' = IF tool.unread /\ file' # file
               THEN [tool EXCEPT !.unread = FALSE, !.lost = TRUE]
               ELSE tool
    /\ UNCHANGED loopctl

\* How a save_state call of the monitor ends here: the file is written, or
\* the write raises before it touches the file and the error is logged.
ManualSaveOutcomes == {"ok", "unwritten"}

\* The steps of the monitor process.
MonitorStep ==
    \/ StartMonitor
    \/ FileGetUsage
    \/ Detect /\ UNCHANGED loopvars
    \/ (\E ok \in BOOLEAN, outcome \in ManualSaveOutcomes : NotifyBoth(ok, outcome))
          /\ MonitorWrites
    \/ (\E ok \in BOOLEAN, outcome \in ManualSaveOutcomes : NotifyWeekly(ok, outcome))
          /\ MonitorWrites
    \/ (\E ok \in BOOLEAN, outcome \in ManualSaveOutcomes : NotifyRate(ok, outcome))
          /\ MonitorWrites
    \/ NotifyNone /\ UNCHANGED loopvars
    \/ (\E outcome \in ManualSaveOutcomes : FinalSave(outcome)) /\ MonitorWrites

\* The steps of the tool, run by hand at any time.
ToolStep ==
    \/ \E a \in ManualArgs : ToolLoad(a, MaxUpdates)
    \/ ToolSave

NextManual == MonitorStep \/ ToolStep

SpecManual == InitManual /\ [][NextManual]_vars

\* The monitor process keeps running: run_monitor's loop starts a poll
\* whenever its wait is over, and every step of a poll returns.
SpecManualFair == SpecManual /\ WF_vars(MonitorStep)


\* The four values of a snapshot, as the MonitorState st holds them.
HysteresisSnapshot(st) ==
    UsageInfo(st.weekly_last_percent, st.weekly_last_reset_hours,
              st.rate_last_percent, st.rate_last_last_reset_hours)

\* A poll has requested a notification that covers the weekly / burst reset.
WeeklyRequested ==
    \E i \in 1 .. Len(requests) : requests[i] \in {"weekly", "both"}
RateRequested ==
    \E i \in 1 .. Len(requests) : requests[i] \in {"rate", "both"}

\* The monitor has just been started on the file that the tool wrote when
\* it reported a weekly / burst reset.
StartedOnWeeklyPromise ==
    /\ pc = "idle" /\ last_poll = "none"
    /\ tool.pc = "done" /\ ~tool.wrote_since_start
    /\ tool.result.weekly_reset_detected
StartedOnRatePromise ==
    /\ pc = "idle" /\ last_poll = "none"
    /\ tool.pc = "done" /\ ~tool.wrote_since_start
    /\ tool.result.rate_reset_detected

\* C22: the manual-update promise: when update_usage has detected a reset
\* of a kind and written the new values, a monitor started afterwards on
\* that state file eventually requests a reset notification for that kind.
C22_PromisedNotificationIsRequested ==
    /\ StartedOnWeeklyPromise ~> WeeklyRequested
    /\ StartedOnRatePromise ~> RateRequested

\* C27: the self-feedback fixed point: as long as nothing but the monitor
\* has written the state file since the monitor started on it, every
\* snapshot the state file client returns equals the hysteresis values the
\* monitor holds, no detector reports a reset and no notification is
\* requested.
C27_SelfFeedbackFixedPoint ==
    (pc # "start" /\ ~tool.wrote_since_start) =>
      /\ pc = "detect" => usage = HysteresisSnapshot(state)
      /\ pc \in {"notify", "save"} =>
            /\ usage = HysteresisSnapshot(state)
            /\ state = pre
      /\ ~is_reset.weekly /\ ~is_reset.rate
      /\ ~weekly_reset /\ ~rate_reset
      /\ requests = << >>

\* A completed poll of a monitor started on the file the tool wrote with
\* 95% / 75% used and both notified flags cleared before: nothing detected,
\* nothing requested, and the file is what the monitor holds.
C27_Witness ==
    /\ pc = "idle" /\ last_poll = "ok"
    /\ tool.pc = "done" /\ ~tool.wrote_since_start
    /\ usage = UsageInfo(95, 30, 75, 20)
    /\ usage = HysteresisSnapshot(state)
    /\ file = state
    /\ requests = << >>

\* C28: no manual update is lost: the monitor never overwrites a write of
\* update_usage that none of its polls has read as a snapshot.
C28_NoLostManualUpdate == ~tool.lost

=============================================================================
